---- MODULE Spec2Model ----
(***************************************************************************)
(* nemu_core: a small 32-bit CPU simulator.  The model follows             *)
(* src/nemu_core/src/cpu.rs (registers, memory, MemIterator, Cpu::cycle,   *)
(* Cpu::do_instruction) and src/nemu_core/src/instr.rs (Instruction::read, *)
(* Move::read).                                                            *)
(*                                                                         *)
(* Representation.  A u8 is an integer 0..255.  A u32 is the tuple of its  *)
(* four bytes, least significant first (<<b0, b1, b2, b3>>), so that every *)
(* 32-bit value, 0xFFFFFFFF included, is representable and wrapping        *)
(* addition is exact.  A usize index is an integer; a u32 converted to     *)
(* usize keeps its value when it is below 2^16 and is represented by 2^16  *)
(* otherwise: the code only compares an index with the memory length and   *)
(* indexes memory with it, and the memory length of the model is far below *)
(* 2^16.  The memory length MAX_MEM (0x1000_0000 in cpu.rs) is scaled down.*)
(***************************************************************************)
EXTENDS Integers, Sequences, FiniteSets, TLC

\* Length of the memory block (cpu.rs:10, MAX_MEM = 0x1000_0000), scaled.
MAX_MEM == 16

\* Number of operations (cycle / do_instruction calls) along one behaviour.
MaxSteps == 2

Byte == 0..255

----------------------------------------------------------------------------
\* Bitwise operations on n-bit naturals, bit by bit.

RECURSIVE BitAnd(_, _, _)
BitAnd(x, y, n) ==
  IF n = 0 THEN 0
  ELSE (x % 2) * (y % 2) + 2 * BitAnd(x \div 2, y \div 2, n - 1)

RECURSIVE BitOr(_, _, _)
BitOr(x, y, n) ==
  IF n = 0 THEN 0
  ELSE (IF (x % 2) + (y % 2) > 0 THEN 1 ELSE 0)
         + 2 * BitOr(x \div 2, y \div 2, n - 1)

RECURSIVE BitXor(_, _, _)
BitXor(x, y, n) ==
  IF n = 0 THEN 0
  ELSE ((x + y) % 2) + 2 * BitXor(x \div 2, y \div 2, n - 1)

\* u32 values as byte tuples, least significant byte first.
U32(b0, b1, b2, b3) == <<b0, b1, b2, b3>>

\* A small natural as a u32.
ToU32(n) == U32(n % 256, (n \div 256) % 256, (n \div 65536) % 256, (n \div 16777216) % 256)

And32(v, m) == [i \in 1..4 |-> BitAnd(v[i], m[i], 8)]
Or32(v, m) == [i \in 1..4 |-> BitOr(v[i], m[i], 8)]

\* u16 as u32 / u8 as u32 (`value as u32`): zero extension.
U16AsU32(lo, hi) == U32(lo, hi, 0, 0)
U8AsU32(b) == U32(b, 0, 0, 0)

\* Mutant of WrappingAdd: the sum stops at 0xFFFFFFFF instead of wrapping.
MutWrappingAddSaturates(w, n) ==
  LET s1 == w[1] + n
      s2 == w[2] + (s1 \div 256)
      s3 == w[3] + (s2 \div 256)
      s4 == w[4] + (s3 \div 256)
  IN  IF s4 > 255 THEN <<255, 255, 255, 255>>
      ELSE <<s1 % 256, s2 % 256, s3 % 256, s4>>

\* u32::wrapping_add(w, n) for a small natural n: addition modulo 2^32.
WrappingAdd(w, n) ==
  LET s1 == w[1] + n
      s2 == w[2] + (s1 \div 256)
      s3 == w[3] + (s2 \div 256)
      s4 == w[4] + (s3 \div 256)
  IN  U32(s1 % 256, s2 % 256, s3 % 256, s4 % 256)

\* `x as usize` for a u32 x (see the representation note above).
AsUsize(w) == IF w[3] = 0 /\ w[4] = 0 THEN w[1] + 256 * w[2] ELSE 65536

----------------------------------------------------------------------------
\* Register (cpu.rs:15-33)

Register == {"A", "B", "X", "Y", "Ip"}

\* Result<Register, String>; the error carries the offending id.
\* Mutant of try_from_id: id 4 names the instruction pointer.
MutTryFromIdAcceptsIp(id) ==
  CASE id = 0 -> [ok |-> TRUE, reg |-> "A", id |-> id]
    [] id = 1 -> [ok |-> TRUE, reg |-> "B", id |-> id]
    [] id = 2 -> [ok |-> TRUE, reg |-> "X", id |-> id]
    [] id = 3 -> [ok |-> TRUE, reg |-> "Y", id |-> id]
    [] id = 4 -> [ok |-> TRUE, reg |-> "Ip", id |-> id]
    [] OTHER  -> [ok |-> FALSE, reg |-> "none", id |-> id]

try_from_id(id) ==
  CASE id = 0 -> [ok |-> TRUE, reg |-> "A", id |-> id]
    [] id = 1 -> [ok |-> TRUE, reg |-> "B", id |-> id]
    [] id = 2 -> [ok |-> TRUE, reg |-> "X", id |-> id]
    [] id = 3 -> [ok |-> TRUE, reg |-> "Y", id |-> id]
    [] OTHER  -> [ok |-> FALSE, reg |-> "none", id |-> id]

----------------------------------------------------------------------------
\* MemIterator (cpu.rs:57-120).  An iterator is [index, travelled]; the memory
\* slice it borrows is passed as m.  Each read returns [ok, v, it]: ok = FALSE
\* is the panic of an out-of-bounds slice index, v the value read, it the
\* iterator afterwards.

MemIteratorNew(start) == [index |-> start, travelled |-> 0]

\* `if self.index >= self.mem.len() { self.index = 0; }`
WrapCheck(index) == IF index >= MAX_MEM THEN 0 ELSE index

InBounds(i) == i >= 0 /\ i < MAX_MEM

next8(m, it) ==
  LET i == WrapCheck(it.index)
  IN  [ok |-> TRUE,
       v  |-> m[i],
       it |-> [index |-> i + 1, travelled |-> it.travelled + 1]]

next16(m, it) ==
  LET i == WrapCheck(it.index)
  IN  IF InBounds(i) /\ InBounds(i + 1)
      THEN [ok |-> TRUE,
            v  |-> <<m[i], m[i + 1]>>,
            it |-> [index |-> i + 2, travelled |-> it.travelled + 2]]
      ELSE [ok |-> FALSE, v |-> <<0, 0>>, it |-> it]

next32(m, it) ==
  LET i == WrapCheck(it.index)
  IN  IF InBounds(i) /\ InBounds(i + 1) /\ InBounds(i + 2) /\ InBounds(i + 3)
      THEN [ok |-> TRUE,
            v  |-> U32(m[i], m[i + 1], m[i + 2], m[i + 3]),
            it |-> [index |-> i + 4, travelled |-> it.travelled + 4]]
      ELSE [ok |-> FALSE, v |-> U32(0, 0, 0, 0), it |-> it]

travelled(it) == it.travelled

----------------------------------------------------------------------------
\* Instruction and Move (instr.rs:15-19, 50-65).  An instruction is a record
\* [op, src, dst]; a register operand is a register name, an address operand
\* a u32.

Halt == [op |-> "Halt", src |-> "none", dst |-> "none"]
RegToReg(s, d)   == [op |-> "RegToReg",   src |-> s, dst |-> d]
RegToMem32(s, d) == [op |-> "RegToMem32", src |-> s, dst |-> d]
RegToMem16(s, d) == [op |-> "RegToMem16", src |-> s, dst |-> d]
RegToMem8(s, d)  == [op |-> "RegToMem8",  src |-> s, dst |-> d]
MemToReg32(s, d) == [op |-> "MemToReg32", src |-> s, dst |-> d]
MemToReg16(s, d) == [op |-> "MemToReg16", src |-> s, dst |-> d]
MemToReg8(s, d)  == [op |-> "MemToReg8",  src |-> s, dst |-> d]
MemToMem32(s, d) == [op |-> "MemToMem32", src |-> s, dst |-> d]
MemToMem16(s, d) == [op |-> "MemToMem16", src |-> s, dst |-> d]
MemToMem8(s, d)  == [op |-> "MemToMem8",  src |-> s, dst |-> d]

\* Result<ParsedInstruction, String>, or the panic of a cursor read.
ParsedOk(instr, delta_ip) ==
  [tag |-> "Ok", instr |-> instr, delta_ip |-> delta_ip, err |-> <<>>]
ParsedErr(kind, value) ==
  [tag |-> "Err", instr |-> Halt, delta_ip |-> 0, err |-> <<kind, value>>]
ParsedPanic ==
  [tag |-> "Panic", instr |-> Halt, delta_ip |-> 0, err |-> <<>>]

\* Move::read (instr.rs:70-139)
\* Mutant of MoveWidth: the shift is missing.
MutMoveWidthNotShifted(move_group) == BitAnd(move_group, 48, 8)

\* Mutant of MoveWidth: the width is taken from bits 1-0.
MutMoveWidthFromLowBits(move_group) == BitAnd(move_group, 3, 8)

\* `(move_group & 0xC0) >> 6` (instr.rs:73)
MoveShape(move_group) == BitAnd(move_group, 192, 8) \div 64

\* `(move_group & 0x30) >> 4` (instr.rs:91, 107, 123)
MoveWidth(move_group) == BitAnd(move_group, 48, 8) \div 16

MoveRead(m, iter) ==
  LET g          == next8(m, iter)
      move_group == g.v
      shape      == MoveShape(move_group)
      width      == MoveWidth(move_group)
  IN  CASE shape = 0 ->
             LET s  == next8(m, g.it)
                 d  == next8(m, s.it)
                 rs == try_from_id(s.v)
                 rd == try_from_id(d.v)
             IN  IF ~rs.ok THEN ParsedErr("register", rs.id)
                 ELSE IF ~rd.ok THEN ParsedErr("register", rd.id)
                 ELSE ParsedOk(RegToReg(rs.reg, rd.reg), travelled(d.it))
        [] shape = 1 ->
             LET r  == next8(m, g.it)
                 rs == try_from_id(r.v)
                 a  == next32(m, r.it)
             IN  IF ~rs.ok THEN ParsedErr("register", rs.id)
                 ELSE IF ~a.ok THEN ParsedPanic
                 ELSE ParsedOk(
                        CASE width = 0 -> RegToMem8(rs.reg, a.v)
                          [] width = 1 -> RegToMem16(rs.reg, a.v)
                          [] OTHER     -> RegToMem32(rs.reg, a.v),
                        travelled(a.it))
        [] shape = 2 ->
             LET a  == next32(m, g.it)
                 r  == next8(m, a.it)
                 rd == try_from_id(r.v)
             IN  IF ~a.ok THEN ParsedPanic
                 ELSE IF ~rd.ok THEN ParsedErr("register", rd.id)
                 ELSE ParsedOk(
                        CASE width = 0 -> MemToReg8(a.v, rd.reg)
                          [] width = 1 -> MemToReg16(a.v, rd.reg)
                          [] OTHER     -> MemToReg32(a.v, rd.reg),
                        travelled(r.it))
        [] OTHER ->
             LET s == next32(m, g.it)
                 d == next32(m, s.it)
             IN  IF ~s.ok \/ ~d.ok THEN ParsedPanic
                 ELSE ParsedOk(
                        CASE width = 0 -> MemToMem8(s.v, d.v)
                          [] width = 1 -> MemToMem16(s.v, d.v)
                          [] OTHER     -> MemToMem32(s.v, d.v),
                        travelled(d.it))

\* `let parsed = Move::read(iter)?; ParsedInstruction { instr: parsed.instr,
\* delta_ip: parsed.delta_ip + 1 }` (instr.rs:33-38)
AddGroupByte(parsed) ==
  IF parsed.tag = "Ok"
  THEN ParsedOk(parsed.instr, parsed.delta_ip + 1)
  ELSE parsed

\* Instruction::read (instr.rs:24-47).  The cursor that read the group byte is
\* moved into Move::read, so its travelled count goes with it.
InstructionRead(m, iter) ==
  LET g           == next8(m, iter)
      group_value == g.v
  IN  CASE group_value = 0 -> ParsedOk(Halt, 1)
        [] group_value = 1 -> AddGroupByte(MoveRead(m, g.it))
        [] OTHER -> ParsedErr("group", group_value)

----------------------------------------------------------------------------
\* Cpu (cpu.rs:122-280).  The register file is the record
\* [instruction_pointer, a, b, x, y, flags]; memory is a function
\* 0..MAX_MEM-1 -> Byte.

\* Mutant of set_reg32: storing zero raises the ZERO flag (cpu.rs:12).
MutSetReg32RaisesZeroFlag(regs, reg, value) ==
  CASE reg = "A" -> [regs EXCEPT !.a = value,
                       !.flags = IF value = <<0, 0, 0, 0>> THEN BitOr(@, 1, 8) ELSE @]
    [] reg = "B" -> [regs EXCEPT !.b = value,
                       !.flags = IF value = <<0, 0, 0, 0>> THEN BitOr(@, 1, 8) ELSE @]
    [] reg = "X" -> [regs EXCEPT !.x = value,
                       !.flags = IF value = <<0, 0, 0, 0>> THEN BitOr(@, 1, 8) ELSE @]
    [] reg = "Y" -> [regs EXCEPT !.y = value,
                       !.flags = IF value = <<0, 0, 0, 0>> THEN BitOr(@, 1, 8) ELSE @]
    [] OTHER     -> [regs EXCEPT !.instruction_pointer = value]

\* Mutant of set_reg32: the arms of X and Y are exchanged.
MutSetReg32XYExchanged(regs, reg, value) ==
  CASE reg = "A" -> [regs EXCEPT !.a = value]
    [] reg = "B" -> [regs EXCEPT !.b = value]
    [] reg = "X" -> [regs EXCEPT !.y = value]
    [] reg = "Y" -> [regs EXCEPT !.x = value]
    [] OTHER     -> [regs EXCEPT !.instruction_pointer = value]

get_reg(regs, reg) ==
  CASE reg = "A" -> regs.a
    [] reg = "B" -> regs.b
    [] reg = "X" -> regs.x
    [] reg = "Y" -> regs.y
    [] OTHER     -> regs.instruction_pointer

set_reg32(regs, reg, value) ==
  CASE reg = "A" -> [regs EXCEPT !.a = value]
    [] reg = "B" -> [regs EXCEPT !.b = value]
    [] reg = "X" -> [regs EXCEPT !.x = value]
    [] reg = "Y" -> [regs EXCEPT !.y = value]
    [] OTHER     -> [regs EXCEPT !.instruction_pointer = value]

\* Mutant of Merge16: the value is zero-extended over the whole register.
MutMerge16ZeroExtends(old, value) == U16AsU32(value[1], value[2])

\* (reg & 0xFFFF_0000) | (value as u32), value a u16 <<lo, hi>>
Merge16(old, value) ==
  Or32(And32(old, U32(0, 0, 255, 255)), U16AsU32(value[1], value[2]))

\* (reg & 0xFFFF_FF00) | (value as u32), value a u8
Merge8(old, value) ==
  Or32(And32(old, U32(0, 255, 255, 255)), U8AsU32(value))

set_reg16(regs, reg, value) ==
  CASE reg = "A" -> [regs EXCEPT !.a = Merge16(regs.a, value)]
    [] reg = "B" -> [regs EXCEPT !.b = Merge16(regs.b, value)]
    [] reg = "X" -> [regs EXCEPT !.x = Merge16(regs.x, value)]
    [] reg = "Y" -> [regs EXCEPT !.y = Merge16(regs.y, value)]
    [] OTHER     -> [regs EXCEPT !.instruction_pointer =
                                   Merge16(regs.instruction_pointer, value)]

set_reg8(regs, reg, value) ==
  CASE reg = "A" -> [regs EXCEPT !.a = Merge8(regs.a, value)]
    [] reg = "B" -> [regs EXCEPT !.b = Merge8(regs.b, value)]
    [] reg = "X" -> [regs EXCEPT !.x = Merge8(regs.x, value)]
    [] reg = "Y" -> [regs EXCEPT !.y = Merge8(regs.y, value)]
    [] OTHER     -> [regs EXCEPT !.instruction_pointer =
                                   Merge8(regs.instruction_pointer, value)]

\* Reads return [ok, v]; ok = FALSE is the out-of-bounds panic.
read_mem32(m, addr) ==
  LET r == next32(m, MemIteratorNew(AsUsize(addr))) IN [ok |-> r.ok, v |-> r.v]

read_mem16(m, addr) ==
  LET r == next16(m, MemIteratorNew(AsUsize(addr))) IN [ok |-> r.ok, v |-> r.v]

read_mem8(m, addr) ==
  LET i == AsUsize(addr)
  IN  IF InBounds(i) THEN [ok |-> TRUE, v |-> m[i]] ELSE [ok |-> FALSE, v |-> 0]

\* One `self.mem[i] = b` of a writer: st is [ok, mem] so far; an index out of
\* bounds panics and keeps the bytes stored before it.
StoreByte(st, i, b) ==
  IF ~st.ok THEN st
  ELSE IF InBounds(i) THEN [ok |-> TRUE, mem |-> [st.mem EXCEPT ![i] = b]]
  ELSE [ok |-> FALSE, mem |-> st.mem]

\* Mutant of write_mem32: the bytes are stored most significant first.
MutWriteMem32BigEndian(m, addr, value) ==
  LET s0 == StoreByte([ok |-> TRUE, mem |-> m], AsUsize(addr), value[4])
      s1 == StoreByte(s0, AsUsize(WrappingAdd(addr, 1)), value[3])
      s2 == StoreByte(s1, AsUsize(WrappingAdd(addr, 2)), value[2])
  IN  StoreByte(s2, AsUsize(WrappingAdd(addr, 3)), value[1])

\* Writers return [ok, mem].
write_mem32(m, addr, value) ==
  LET s0 == StoreByte([ok |-> TRUE, mem |-> m], AsUsize(addr), value[1])
      s1 == StoreByte(s0, AsUsize(WrappingAdd(addr, 1)), value[2])
      s2 == StoreByte(s1, AsUsize(WrappingAdd(addr, 2)), value[3])
  IN  StoreByte(s2, AsUsize(WrappingAdd(addr, 3)), value[4])

write_mem16(m, addr, value) ==
  LET s0 == StoreByte([ok |-> TRUE, mem |-> m], AsUsize(addr), value[1])
  IN  StoreByte(s0, AsUsize(WrappingAdd(addr, 1)), value[2])

write_mem8(m, addr, value) ==
  StoreByte([ok |-> TRUE, mem |-> m], AsUsize(addr), value)

\* Outcome of executing an instruction: [ok, registers, mem]; ok = FALSE is a
\* panic, with the state as it was when the panic was raised.
Done(regs, m) == [ok |-> TRUE, registers |-> regs, mem |-> m]
Panicked(regs, m) == [ok |-> FALSE, registers |-> regs, mem |-> m]

Stored(regs, w) == [ok |-> w.ok, registers |-> regs, mem |-> w.mem]

\* (get_reg(reg) & 0xFFFF) as u16 and (get_reg(reg) & 0xFF) as u8
Low16(v) == LET w == And32(v, U32(255, 255, 0, 0)) IN <<w[1], w[2]>>
Low8(v) == And32(v, U32(255, 0, 0, 0))[1]

\* Cpu::do_move_instruction (cpu.rs:166-201)
do_move_instruction(regs, m, move_instr) ==
  LET op  == move_instr.op
      src == move_instr.src
      dst == move_instr.dst
  IN  CASE op = "RegToReg" -> Done(set_reg32(regs, dst, get_reg(regs, src)), m)
        [] op = "RegToMem32" -> Stored(regs, write_mem32(m, dst, get_reg(regs, src)))
        [] op = "RegToMem16" ->
             Stored(regs, write_mem16(m, dst, Low16(get_reg(regs, src))))
        [] op = "RegToMem8" ->
             Stored(regs, write_mem8(m, dst, Low8(get_reg(regs, src))))
        [] op = "MemToReg32" ->
             LET r == read_mem32(m, src)
             IN  IF r.ok THEN Done(set_reg32(regs, dst, r.v), m) ELSE Panicked(regs, m)
        [] op = "MemToReg16" ->
             LET r == read_mem16(m, src)
             IN  IF r.ok THEN Done(set_reg16(regs, dst, r.v), m) ELSE Panicked(regs, m)
        [] op = "MemToReg8" ->
             LET r == read_mem8(m, src)
             IN  IF r.ok THEN Done(set_reg8(regs, dst, r.v), m) ELSE Panicked(regs, m)
        [] op = "MemToMem32" ->
             LET r == read_mem32(m, src)
             IN  IF r.ok THEN Stored(regs, write_mem32(m, dst, r.v)) ELSE Panicked(regs, m)
        [] op = "MemToMem16" ->
             LET r == read_mem16(m, src)
             IN  IF r.ok THEN Stored(regs, write_mem16(m, dst, r.v)) ELSE Panicked(regs, m)
        [] OTHER ->
             LET r == read_mem8(m, src)
             IN  IF r.ok THEN Stored(regs, write_mem8(m, dst, r.v)) ELSE Panicked(regs, m)

\* One step of a byte-by-byte copy: st is [ok, mem] so far.
MutCopyByte(st, src, dst, k) ==
  IF ~st.ok \/ ~InBounds(AsUsize(WrappingAdd(src, k))) THEN [ok |-> FALSE, mem |-> st.mem]
  ELSE StoreByte(st, AsUsize(WrappingAdd(dst, k)),
                 st.mem[AsUsize(WrappingAdd(src, k))])

\* Mutant of do_instruction: MemToMem32 copies byte by byte, reading each
\* source byte after the destination bytes before it were stored.
MutDoInstructionCopiesBytewise(regs, m, instr) ==
  IF instr.op = "Halt" THEN Done(regs, m)
  ELSE IF instr.op = "MemToMem32"
  THEN Stored(regs,
         MutCopyByte(
           MutCopyByte(
             MutCopyByte(
               MutCopyByte([ok |-> TRUE, mem |-> m], instr.src, instr.dst, 0),
               instr.src, instr.dst, 1),
             instr.src, instr.dst, 2),
           instr.src, instr.dst, 3))
  ELSE do_move_instruction(regs, m, instr)

\* Mutant of do_instruction: Halt raises the ZERO flag (cpu.rs:12).
MutDoInstructionHaltSetsFlag(regs, m, instr) ==
  IF instr.op = "Halt" THEN Done([regs EXCEPT !.flags = 1], m)
  ELSE do_move_instruction(regs, m, instr)

\* Cpu::do_instruction (cpu.rs:159-164)
do_instruction(regs, m, instr) ==
  IF instr.op = "Halt" THEN Done(regs, m)
  ELSE do_move_instruction(regs, m, instr)

\* Outcome of a cycle: the decode result, whether the call returned (ok)
\* and the state it left.
CycleOutcome(parsed, e) ==
  [parsed |-> parsed, ok |-> e.ok, registers |-> e.registers, mem |-> e.mem]

\* The outcome e of an executed instruction, with the instruction pointer
\* advanced by the delta of a second decode.
MutAdvanceByReparsed(parsed, e, reparsed) ==
  CycleOutcome(parsed,
    [e EXCEPT !.registers.instruction_pointer =
       WrappingAdd(@, IF reparsed.tag = "Ok" THEN reparsed.delta_ip ELSE 0)])

MutReparseAfter(regs, parsed, e) ==
  MutAdvanceByReparsed(parsed, e,
    InstructionRead(e.mem, MemIteratorNew(AsUsize(regs.instruction_pointer))))

\* Mutant of CycleMatch: the instruction is executed first, and the
\* instruction pointer then advanced by the delta of the bytes memory holds
\* after the effect.
MutCycleMatchAdvancesAfterEffect(regs, m, parsed_instr) ==
  CASE parsed_instr.tag = "Ok" ->
         MutReparseAfter(regs, parsed_instr,
                         do_instruction(regs, m, parsed_instr.instr))
    [] parsed_instr.tag = "Err" -> CycleOutcome(parsed_instr, Done(regs, m))
    [] OTHER -> CycleOutcome(parsed_instr, Panicked(regs, m))

\* Mutant of CycleMatch: a decode error skips the offending group byte.
MutCycleMatchErrSkipsByte(regs, m, parsed_instr) ==
  CASE parsed_instr.tag = "Ok" ->
         CycleOutcome(parsed_instr,
           do_instruction(
             [regs EXCEPT !.instruction_pointer =
                WrappingAdd(regs.instruction_pointer, parsed_instr.delta_ip)],
             m, parsed_instr.instr))
    [] parsed_instr.tag = "Err" ->
         CycleOutcome(parsed_instr,
           Done([regs EXCEPT !.instruction_pointer =
                   WrappingAdd(regs.instruction_pointer, 1)], m))
    [] OTHER -> CycleOutcome(parsed_instr, Panicked(regs, m))

\* Mutant of CycleMatch: a decode error restarts the machine at address 0.
MutCycleMatchErrRestarts(regs, m, parsed_instr) ==
  CASE parsed_instr.tag = "Ok" ->
         CycleOutcome(parsed_instr,
           do_instruction(
             [regs EXCEPT !.instruction_pointer =
                WrappingAdd(regs.instruction_pointer, parsed_instr.delta_ip)],
             m, parsed_instr.instr))
    [] parsed_instr.tag = "Err" ->
         CycleOutcome(parsed_instr,
           Done([regs EXCEPT !.instruction_pointer = <<0, 0, 0, 0>>], m))
    [] OTHER -> CycleOutcome(parsed_instr, Panicked(regs, m))

\* `match parsed_instr { Ok(parsed) => ..., Err(e) => eprintln!(..) }`
\* (cpu.rs:146-156); a panic of the decoder leaves the match unreached.
CycleMatch(regs, m, parsed_instr) ==
  CASE parsed_instr.tag = "Ok" ->
         CycleOutcome(parsed_instr,
           do_instruction(
             [regs EXCEPT !.instruction_pointer =
                WrappingAdd(regs.instruction_pointer, parsed_instr.delta_ip)],
             m, parsed_instr.instr))
    [] parsed_instr.tag = "Err" -> CycleOutcome(parsed_instr, Done(regs, m))
    [] OTHER -> CycleOutcome(parsed_instr, Panicked(regs, m))

\* Cpu::cycle (cpu.rs:140-157): [parsed, ok, registers, mem].
cycle(regs, m) ==
  CycleMatch(regs, m,
    InstructionRead(m, MemIteratorNew(AsUsize(regs.instruction_pointer))))

----------------------------------------------------------------------------

\* Bitflag<u8> (bitflag.rs:1-53), the type of CpuRegisters::flags, as the u8 it
\* wraps.  `#[derive(Default)]`: the value of a new Bitflag.
BitflagDefault == 0

\* `pub const ZERO: u8 = 0b0000_0001` (cpu.rs:12)
ZERO == 1

\* Bitflag::value
BitflagValue(bf) == bf

\* Mutant of contains: true only when every bit of the mask is set.
MutContainsAllBits(bf, v) == BitAnd(bf, v, 8) = v

\* Bitflag::contains: `(self.value & v) != T::default()`
contains(bf, v) == BitAnd(bf, v, 8) # 0

\* `self.value |= rhs`
bitor_assign(bf, rhs) == BitOr(bf, rhs, 8)

\* `self.value &= rhs`
bitand_assign(bf, rhs) == BitAnd(bf, rhs, 8)

\* `self.value ^= rhs`
bitxor_assign(bf, rhs) == BitXor(bf, rhs, 8)

\* `Snapshot { next_instr: parsed_instr.map(|parsed| parsed.instr), registers,
\* mem_block }` (lib.rs:63-74); a panic of the decode leaves no value.
SnapshotOf(regs, m, parsed_instr) ==
  [ok     |-> parsed_instr.tag # "Panic",
   parsed |-> parsed_instr,
   value  |-> [next_instr |-> IF parsed_instr.tag = "Ok"
                              THEN <<parsed_instr.instr>> ELSE <<>>,
               registers  |-> regs,
               mem_block  |-> m]]

\* Mutant of snapshot: the decode starts at cell 0.
MutSnapshotDecodesAtZero(regs, m) ==
  SnapshotOf(regs, m, InstructionRead(m, MemIteratorNew(0)))

\* Machine::snapshot (lib.rs:58-75): decodes at the instruction pointer with
\* the cursor constructor of cpu.rs:65.
snapshot(regs, m) ==
  SnapshotOf(regs, m,
             InstructionRead(m, MemIteratorNew(AsUsize(regs.instruction_pointer))))

\* The machine as a state machine.
\*   registers, mem : Cpu.registers and Cpu.mem
\*   pre            : registers, mem and res as they were before the last call
\*   res            : what the last call did (for cycle(), `at` is the
\*                    instruction pointer it fetched from)
\*   steps          : number of calls made so far
\*   last_snapshot  : the Snapshot the owner holds, if any (<<>> or <<value>>)

VARIABLES registers, mem, pre, res, steps, last_snapshot

vars == <<registers, mem, pre, res, steps, last_snapshot>>

Cells == 0..(MAX_MEM - 1)

\* Addresses the instructions of the model use.
AddrZero == ToU32(0)
AddrFit  == ToU32(MAX_MEM - 4)      \* a 32-bit access here ends at the last cell
AddrMid  == ToU32(MAX_MEM - 6)
AddrTop3 == ToU32(MAX_MEM - 3)
AddrTop2 == ToU32(MAX_MEM - 2)
AddrTop  == ToU32(MAX_MEM - 1)      \* the last cell
AddrOut  == ToU32(MAX_MEM)          \* the first address past the memory
AddrMax  == U32(255, 255, 255, 255) \* 0xFFFFFFFF
AddrMax3 == U32(253, 255, 255, 255) \* 0xFFFFFFFD

RegIds == {0, 1, 2, 3, 4}

\* Byte encodings of instructions (instr.rs:24-47, 70-139).
EncMove(shape, width, low, operands) ==
  <<1, 64 * shape + 16 * width + low>> \o operands

ProgsRegToReg ==
  { EncMove(0, 0, 0, <<s, d>>) : s \in RegIds, d \in RegIds }
  \cup { EncMove(0, w, low, <<0, 1>>) : w \in {1, 3}, low \in {0, 15} }
  \cup { EncMove(0, 0, 0, <<255, 0>>) }

ProgsRegToMem ==
  { EncMove(1, w, 0, <<r>> \o a) :
      w \in 0..3, r \in RegIds, a \in {AddrFit, AddrTop, AddrOut, AddrMax} }
  \cup { EncMove(1, w, 15, <<0>> \o AddrFit) : w \in 0..3 }
  \cup { EncMove(1, w, 0, <<1>> \o a) : w \in 0..3, a \in {AddrTop3, AddrMax3} }
  \cup { EncMove(1, 1, 0, <<2>> \o U32(1, 2, 3, 4)) }

ProgsMemToReg ==
  { EncMove(2, w, 0, a \o <<r>>) :
      w \in 0..3, r \in RegIds, a \in {AddrFit, AddrTop, AddrOut, AddrMax} }
  \cup { EncMove(2, w, 15, AddrFit \o <<0>>) : w \in 0..3 }
  \cup { EncMove(2, w, 0, a \o <<2>>) : w \in 0..3, a \in {AddrTop3, AddrTop2, AddrZero} }
  \cup { EncMove(2, 1, 0, U32(1, 2, 3, 4) \o <<3>>) }

ProgsMemToMem ==
  { EncMove(3, w, 0, p[1] \o p[2]) :
      w \in 0..3,
      p \in { <<AddrFit, AddrMid>>, <<AddrMid, AddrFit>>, <<AddrFit, AddrFit>>,
              <<AddrTop, AddrZero>>, <<AddrZero, AddrTop>>,
              <<AddrOut, AddrZero>>, <<AddrZero, AddrMax>> } }
  \cup { EncMove(3, 2, 15, AddrZero \o AddrFit) }
  \cup { EncMove(3, 1, 0, U32(1, 2, 3, 4) \o U32(5, 6, 7, 8)) }

ProgsOther == { <<0>>, <<2>>, <<255>> }

\* Two instructions laid out one directly behind the other.
ProgsTwo ==
  { EncMove(0, 0, 0, <<0, 1>>) \o EncMove(0, 0, 0, <<1, 2>>),
    EncMove(0, 0, 0, <<0, 1>>) \o <<0>>,
    EncMove(1, 2, 0, <<0>> \o AddrFit) \o EncMove(0, 0, 0, <<1, 2>>),
    <<0>> \o EncMove(0, 0, 0, <<0, 1>>),
    <<0, 0>> }

\* Moves that store into their own bytes or into the bytes behind them.
ProgsSelf ==
  { EncMove(1, 0, 0, <<0>> \o AddrZero),
    EncMove(1, 2, 0, <<0>> \o ToU32(5)),
    EncMove(3, 1, 0, ToU32(4) \o ToU32(0)) }

Progs ==
  ProgsRegToReg \cup ProgsRegToMem \cup ProgsMemToReg \cup ProgsMemToMem
    \cup ProgsOther \cup ProgsTwo

\* A few programs that are also laid out across the end of memory and run
\* from instruction pointers past the memory.
ProgsFew ==
  { <<0>>, <<2>>,
    EncMove(0, 0, 0, <<0, 1>>),
    EncMove(0, 0, 0, <<0, 4>>),
    EncMove(1, 2, 0, <<0>> \o AddrMid),
    EncMove(2, 1, 0, AddrMid \o <<0>>),
    EncMove(2, 0, 0, AddrMid \o <<3>>),
    EncMove(3, 0, 0, AddrMid \o AddrFit) }

\* Memory contents before the program is stored: every cell a different byte
\* that is no valid group byte, or all zero (Cpu::new, cpu.rs:129-138).
Background(kind) ==
  [i \in Cells |-> IF kind = "zero" THEN 0 ELSE 16 + i]

\* The program bytes stored from cell `place` on, cell numbers modulo MAX_MEM.
Load(bg, prog, place) ==
  [i \in Cells |->
     LET k == (i - place + MAX_MEM) % MAX_MEM
     IN  IF k < Len(prog) THEN prog[k + 1] ELSE bg[i]]

\* Register files the owner of the machine sets up before a call: four
\* registers of distinct bytes, all ones (instr.rs:288) or all zero
\* (CpuRegisters::default, cpu.rs:135); "flagged" has distinct bytes and the
\* flags register (a pub field, cpu.rs:45) set to 0b1000_0001.
InitRegisters(ip, kind) ==
  [instruction_pointer |-> ip,
   a |-> CASE kind = "ones" -> U32(255, 255, 255, 255)
           [] kind = "zero" -> U32(0, 0, 0, 0)
           [] OTHER -> U32(161, 162, 163, 164),
   b |-> CASE kind = "ones" -> U32(255, 255, 255, 255)
           [] kind = "zero" -> U32(0, 0, 0, 0)
           [] OTHER -> U32(177, 178, 179, 180),
   x |-> CASE kind = "ones" -> U32(255, 255, 255, 255)
           [] kind = "zero" -> U32(0, 0, 0, 0)
           [] OTHER -> U32(193, 194, 195, 196),
   y |-> CASE kind = "ones" -> U32(255, 255, 255, 255)
           [] kind = "zero" -> U32(0, 0, 0, 0)
           [] OTHER -> U32(209, 210, 211, 212),
   flags |-> IF kind = "flagged" THEN 129 ELSE 0]

NoResult ==
  [op |-> "new", parsed |-> ParsedOk(Halt, 0), ok |-> TRUE]

Configs ==
  { [prog |-> p, place |-> 0, ip |-> AddrZero, bg |-> "pattern", regs |-> "distinct"] :
      p \in Progs }
  \cup
  { [prog |-> p, place |-> pl, ip |-> ip, bg |-> bg, regs |-> "distinct"] :
      p \in ProgsFew,
      pl \in {0, MAX_MEM - 1, MAX_MEM - 2},
      ip \in {AddrTop, AddrTop2, AddrOut, AddrMax, ToU32(2 * MAX_MEM - 1)},
      bg \in {"pattern", "zero"} }
  \cup
  { [prog |-> p, place |-> 0, ip |-> AddrZero, bg |-> "pattern", regs |-> r] :
      p \in ProgsFew, r \in {"ones", "zero"} }
  \cup
  { [prog |-> p, place |-> MAX_MEM - 4, ip |-> AddrFit, bg |-> "pattern", regs |-> "distinct"] :
      p \in ProgsFew }
  \cup
  { [prog |-> p, place |-> 0, ip |-> AddrZero, bg |-> "pattern", regs |-> "flagged"] :
      p \in ProgsFew }
  \cup
  { [prog |-> p, place |-> 0, ip |-> AddrZero, bg |-> "pattern", regs |-> r] :
      p \in ProgsSelf, r \in {"distinct", "zero"} }

Init ==
  \E c \in Configs :
    /\ registers = InitRegisters(c.ip, c.regs)
    /\ mem = Load(Background(c.bg), c.prog, c.place)
    /\ pre = [registers |-> InitRegisters(c.ip, c.regs),
              mem |-> Load(Background(c.bg), c.prog, c.place),
              res |-> NoResult,
              last_snapshot |-> <<>>]
    /\ res = NoResult
    /\ steps = 0
    /\ last_snapshot = <<>>

\* Machine::run_cycle / Cpu::cycle (lib.rs:54-56, cpu.rs:140-157)
Cycle ==
  /\ steps < MaxSteps
  /\ res.ok
  /\ \E c \in {cycle(registers, mem)} :
         /\ registers' = c.registers
         /\ mem' = c.mem
         /\ res' = [op |-> "cycle", parsed |-> c.parsed, ok |-> c.ok,
                    at |-> registers.instruction_pointer]
  /\ pre' = [registers |-> registers, mem |-> mem, res |-> res,
             last_snapshot |-> last_snapshot]
  /\ steps' = steps + 1
  /\ last_snapshot' = <<>>

\* Instructions handed to do_instruction directly, as the tests do
\* (instr.rs:229-384).
ExecInstrs ==
  { Halt,
    RegToReg("A", "B"), RegToReg("Ip", "A"), RegToReg("X", "Ip"),
    RegToMem32("A", AddrZero), RegToMem16("Ip", AddrFit),
    MemToReg32(AddrTop, "A"), MemToReg32(AddrTop2, "B"), MemToReg32(AddrTop3, "X"),
    MemToReg16(AddrTop, "A"), MemToReg8(AddrOut, "Y"), MemToReg8(AddrZero, "Ip"),
    MemToMem32(AddrZero, ToU32(1)), MemToMem16(AddrZero, ToU32(4)) }

\* Cpu::do_instruction called by the owner of the machine (cpu.rs:159-164)
DoInstruction(instr) ==
  /\ steps < MaxSteps
  /\ res.ok
  /\ \E e \in {do_instruction(registers, mem, instr)} :
         /\ registers' = e.registers
         /\ mem' = e.mem
         /\ res' = [op |-> "do_instruction", parsed |-> ParsedOk(instr, 0), ok |-> e.ok]
  /\ pre' = [registers |-> registers, mem |-> mem, res |-> res,
             last_snapshot |-> last_snapshot]
  /\ steps' = steps + 1
  /\ last_snapshot' = <<>>

\* Machine::snapshot called by the owner of the machine (lib.rs:58-75). The
\* value borrows the memory (Snapshot<'machine>, lib.rs:7-11), so the owner
\* holds it only until the next call that takes the machine mutably.
TakeSnapshot ==
  /\ steps < MaxSteps
  /\ res.ok
  /\ \E v \in {snapshot(registers, mem)} :
         /\ res' = [op |-> "snapshot", parsed |-> v.parsed, ok |-> v.ok]
         /\ last_snapshot' = IF v.ok THEN <<v.value>> ELSE <<>>
  /\ pre' = [registers |-> registers, mem |-> mem, res |-> res,
             last_snapshot |-> last_snapshot]
  /\ steps' = steps + 1
  /\ UNCHANGED <<registers, mem>>

Next ==
  \/ Cycle
  \/ \E instr \in ExecInstrs : DoInstruction(instr)
  \/ TakeSnapshot

Spec == Init /\ [][Next]_vars

----------------------------------------------------------------------------
\* Vocabulary of the properties.

\* The last call was cycle() and its decode succeeded.
CycleDecoded == res.op = "cycle" /\ res.parsed.tag = "Ok"

\* The last call was cycle() and it reported a decode error.
CycleFailed == res.op = "cycle" /\ res.parsed.tag = "Err"

\* do_instruction was entered with an instruction of kind op by the last call
\* (directly, or by cycle() after a successful decode).
Entered(op) ==
  /\ res.op \in {"cycle", "do_instruction"}
  /\ res.parsed.tag = "Ok"
  /\ res.parsed.instr.op = op

\* The registers as they were when do_instruction was entered by the last
\* call: cycle() has advanced the instruction pointer by then.
EntryRegisters ==
  IF res.op = "cycle"
  THEN [pre.registers EXCEPT !.instruction_pointer = registers.instruction_pointer]
  ELSE pre.registers

\* The value of a u32 modulo n, for a small n.
U32Mod(w, n) ==
  ((w[1] % n) + (w[2] % n) * (256 % n) + (w[3] % n) * (65536 % n)
     + (w[4] % n) * (16777216 % n)) % n

\* Number of bytes an instruction occupies in memory (spec section 6).
InstrBytes(instr) ==
  CASE instr.op = "Halt" -> 1
    [] instr.op = "RegToReg" -> 4
    [] instr.op \in {"RegToMem8", "RegToMem16", "RegToMem32"} -> 7
    [] instr.op \in {"MemToReg8", "MemToReg16", "MemToReg32"} -> 7
    [] OTHER -> 10

\* Width in bytes of a move.
OpBytes(op) ==
  CASE op \in {"RegToMem8", "MemToReg8", "MemToMem8"} -> 1
    [] op \in {"RegToMem16", "MemToReg16", "MemToMem16"} -> 2
    [] OTHER -> 4

----------------------------------------------------------------------------
\* C1: whenever cycle() decodes an instruction, the delta_ip of the decode
\* equals the number of bytes the instruction occupies (Halt 1, reg->reg 4,
\* reg->mem 7, mem->reg 7, mem->mem 10).
C1_DeltaIsInstructionLength ==
  CycleDecoded => res.parsed.delta_ip = InstrBytes(res.parsed.instr)

\* C2: every cycle() call runs to completion: no fetch, decode or execute
\* step panics on an out-of-bounds memory access.
C2_CycleNeverPanics ==
  res.op = "cycle" => res.ok

\* C3: a 32-bit read starting at one of the last three cells, and a 16-bit
\* read starting at the last cell, completes and returns the bytes at the
\* cells start, start+1, ... taken modulo the memory length.
C3_StraddlingReadWraps ==
  /\ \A k \in 1..3 :
       (Entered("MemToReg32") /\ res.parsed.instr.src = ToU32(MAX_MEM - k)
          /\ res.parsed.instr.dst \in {"A", "B", "X", "Y"})
       => /\ res.ok
          /\ get_reg(registers, res.parsed.instr.dst)
               = [i \in 1..4 |-> pre.mem[(MAX_MEM - k + i - 1) % MAX_MEM]]
  /\ (Entered("MemToReg16") /\ res.parsed.instr.src = AddrTop
        /\ res.parsed.instr.dst \in {"A", "B", "X", "Y"})
     => /\ res.ok
        /\ get_reg(registers, res.parsed.instr.dst)[1] = pre.mem[MAX_MEM - 1]
        /\ get_reg(registers, res.parsed.instr.dst)[2] = pre.mem[0]

\* C4: every address is reduced modulo the memory length: cycle() fetches the
\* group byte from cell IP mod MAX_MEM, and a read of any width at address a
\* completes and returns the bytes at the cells (a + i) mod MAX_MEM.
C4_AddressesReducedModulo ==
  /\ res.op = "cycle" =>
       LET first == pre.mem[U32Mod(pre.registers.instruction_pointer, MAX_MEM)]
       IN  /\ first = 0 => res.parsed = ParsedOk(Halt, 1)
           /\ first = 1 => res.parsed.tag # "Err" \/ res.parsed.err[1] = "register"
           /\ first \notin {0, 1} => res.parsed = ParsedErr("group", first)
  /\ \A op \in {"MemToReg8", "MemToReg16", "MemToReg32"} :
       (Entered(op) /\ res.parsed.instr.dst \in {"A", "B", "X", "Y"})
       => /\ res.ok
          /\ \A i \in 1..OpBytes(op) :
               get_reg(registers, res.parsed.instr.dst)[i]
                 = pre.mem[(U32Mod(res.parsed.instr.src, MAX_MEM) + i - 1) % MAX_MEM]

\* C5: after a cycle() that decoded an instruction with delta d from IP = p
\* and returned, IP = (p + d) mod 2^32; from IP = 0xFFFFFFFF with a Halt
\* fetched the call returns and IP is 0.
C5_IpWrappingAdd ==
  /\ (CycleDecoded /\ res.ok) =>
       LET p  == pre.registers.instruction_pointer
           q  == registers.instruction_pointer
           lo == p[1] + 256 * p[2] + res.parsed.delta_ip
           hi == p[3] + 256 * p[4] + (lo \div 65536)
       IN  /\ q[1] + 256 * q[2] = lo % 65536
           /\ q[3] + 256 * q[4] = hi % 65536
  /\ (CycleDecoded /\ res.parsed.instr.op = "Halt"
        /\ pre.registers.instruction_pointer = AddrMax)
     => res.ok /\ registers.instruction_pointer = AddrZero

C5_Witness ==
  /\ CycleDecoded /\ res.ok
  /\ res.parsed.instr.op = "Halt"
  /\ pre.registers.instruction_pointer = AddrMax
  /\ registers.instruction_pointer = AddrZero

\* C6: a cycle() that reports a decode error (invalid group byte or invalid
\* register id) returns with IP, A, B, X, Y, flags and every memory cell as
\* they were before the call.
C6_DecodeErrorLeavesState ==
  CycleFailed => res.ok /\ registers = pre.registers /\ mem = pre.mem

C6_Witness ==
  /\ CycleFailed
  /\ res.parsed.err[1] = "register"
  /\ registers = pre.registers /\ mem = pre.mem

\* C7: a cycle() that directly follows a cycle() that reported a decode error
\* reports the same error again and leaves registers and memory as they were.
C7_DecodeErrorIsFixedPoint ==
  (res.op = "cycle" /\ pre.res.op = "cycle" /\ pre.res.parsed.tag = "Err")
  => /\ res.ok
     /\ res.parsed = pre.res.parsed
     /\ registers = pre.registers
     /\ mem = pre.mem

C7_Witness ==
  /\ res.op = "cycle" /\ res.parsed.tag = "Err"
  /\ pre.res.op = "cycle" /\ pre.res.parsed.tag = "Err"
  /\ steps = 2

\* C8: do_instruction(Halt) changes no register and no memory cell; a cycle()
\* that decodes Halt changes only IP, by +1; and the machine keeps no halted
\* state: the cycle() after a Halt fetches at the new IP, so a Halt there is
\* executed and an invalid group byte there is reported.
C8_HaltChangesNothing ==
  /\ (res.op = "do_instruction" /\ res.parsed.instr.op = "Halt")
     => res.ok /\ registers = pre.registers /\ mem = pre.mem
  /\ (CycleDecoded /\ res.parsed.instr.op = "Halt")
     => /\ res.ok
        /\ mem = pre.mem
        /\ registers.instruction_pointer
             = WrappingAdd(pre.registers.instruction_pointer, 1)
        /\ [registers EXCEPT !.instruction_pointer = AddrZero]
             = [pre.registers EXCEPT !.instruction_pointer = AddrZero]
  /\ (res.op = "cycle" /\ pre.res.op = "cycle" /\ pre.res.parsed.tag = "Ok"
        /\ pre.res.parsed.instr.op = "Halt"
        /\ InBounds(AsUsize(pre.registers.instruction_pointer)))
     => LET first == pre.mem[AsUsize(pre.registers.instruction_pointer)]
        IN  /\ first = 0 => res.parsed = ParsedOk(Halt, 1)
            /\ first \notin {0, 1} => res.parsed = ParsedErr("group", first)

C8_Witness ==
  /\ CycleDecoded /\ res.parsed.instr.op = "Halt"
  /\ pre.res.op = "cycle" /\ pre.res.parsed.tag = "Ok"
  /\ pre.res.parsed.instr.op = "Halt"
  /\ registers.instruction_pointer
       = WrappingAdd(pre.registers.instruction_pointer, 1)

\* C9: a Memory->Register move of width w into R in {A, B, X, Y} that
\* returns leaves the bytes of R above the low w bits as they were, sets the
\* low w bits to the little-endian value at the source address (checked for
\* every source with a + w/8 <= MAX_MEM, where the move always returns), and
\* changes no memory cell and no other register.
C9_MemToRegMaskedMerge ==
  \A op \in {"MemToReg8", "MemToReg16", "MemToReg32"} :
    (Entered(op) /\ res.parsed.instr.dst \in {"A", "B", "X", "Y"})
    => LET R   == res.parsed.instr.dst
           a   == AsUsize(res.parsed.instr.src)
           n   == OpBytes(op)
           old == get_reg(EntryRegisters, R)
           new == get_reg(registers, R)
       IN  /\ a + n <= MAX_MEM => res.ok
           /\ res.ok =>
                /\ \A i \in (n + 1)..4 : new[i] = old[i]
                /\ a + n <= MAX_MEM => \A i \in 1..n : new[i] = pre.mem[a + i - 1]
                /\ mem = pre.mem
                /\ \A r \in Register \ {R} :
                     get_reg(registers, r) = get_reg(EntryRegisters, r)
                /\ registers.flags = pre.registers.flags

C9_Witness ==
  /\ Entered("MemToReg16") /\ res.ok /\ res.op = "cycle"
  /\ res.parsed.instr.dst = "A"
  /\ res.parsed.instr.src = AddrFit
  /\ registers.a = <<pre.mem[MAX_MEM - 4], pre.mem[MAX_MEM - 3],
                     pre.registers.a[3], pre.registers.a[4]>>
  /\ registers.a # pre.registers.a

\* C10: a Register->Memory move of width w to an address a with
\* a + w/8 <= MAX_MEM returns, stores byte i (little-endian) of the source
\* register in cell a + i for i < w/8, and changes no other memory cell and
\* no register.
C10_RegToMemWritesLowBytes ==
  \A op \in {"RegToMem8", "RegToMem16", "RegToMem32"} :
    (Entered(op) /\ AsUsize(res.parsed.instr.dst) + OpBytes(op) <= MAX_MEM)
    => LET a == AsUsize(res.parsed.instr.dst)
           v == get_reg(EntryRegisters, res.parsed.instr.src)
       IN  /\ res.ok
           /\ mem = [i \in Cells |->
                       IF a <= i /\ i < a + OpBytes(op) THEN v[i - a + 1]
                       ELSE pre.mem[i]]
           /\ registers = EntryRegisters

C10_Witness ==
  /\ Entered("RegToMem32") /\ res.ok /\ res.op = "cycle"
  /\ res.parsed.instr.src = "A"
  /\ res.parsed.instr.dst = AddrFit
  /\ \A i \in 1..4 : mem[MAX_MEM - 5 + i] = pre.registers.a[i]
  /\ mem # pre.mem

\* C11: a 16- or 32-bit write to an address at the top of the 32-bit address
\* space (0xFFFFFFFF, 0xFFFFFFFD) returns, and stores byte i in the cell of
\* the address a + i, the sum taken modulo 2^32 and then modulo MAX_MEM.
C11_TopOfAddressSpaceWriteWraps ==
  \A op \in {"RegToMem16", "RegToMem32"} :
    (Entered(op) /\ res.parsed.instr.dst \in {AddrMax, AddrMax3})
    => /\ res.ok
       /\ \A i \in 1..OpBytes(op) :
            mem[U32Mod(WrappingAdd(res.parsed.instr.dst, i - 1), MAX_MEM)]
              = get_reg(EntryRegisters, res.parsed.instr.src)[i]

\* C12: a Memory->Memory move of width w with source and destination inside
\* memory (s + w/8 <= MAX_MEM, d + w/8 <= MAX_MEM), overlapping or not,
\* returns with the destination cells holding the source bytes as they were
\* before the move, and with every other cell and every register unchanged.
C12_MemToMemCopiesOriginalBytes ==
  \A op \in {"MemToMem8", "MemToMem16", "MemToMem32"} :
    (Entered(op)
       /\ AsUsize(res.parsed.instr.src) + OpBytes(op) <= MAX_MEM
       /\ AsUsize(res.parsed.instr.dst) + OpBytes(op) <= MAX_MEM)
    => LET s == AsUsize(res.parsed.instr.src)
           d == AsUsize(res.parsed.instr.dst)
       IN  /\ res.ok
           /\ mem = [i \in Cells |->
                       IF d <= i /\ i < d + OpBytes(op) THEN pre.mem[s + i - d]
                       ELSE pre.mem[i]]
           /\ registers = EntryRegisters

\* An overlapping copy whose result differs from a byte-by-byte copy.
C12_Witness ==
  /\ Entered("MemToMem32") /\ res.ok
  /\ res.parsed.instr.src = AddrZero
  /\ res.parsed.instr.dst = ToU32(1)
  /\ \A i \in 1..4 : mem[i] = pre.mem[i - 1]
  /\ mem[2] # pre.mem[0]

\* C13: a Register->Register move with source S and destination D in
\* {A, B, X, Y} returns with D holding the 32-bit value S had, and with every
\* other register, IP, flags and all memory unchanged (so with S = D nothing
\* changes).
C13_RegToRegCopiesFullRegister ==
  (Entered("RegToReg")
     /\ res.parsed.instr.src \in {"A", "B", "X", "Y"}
     /\ res.parsed.instr.dst \in {"A", "B", "X", "Y"})
  => /\ res.ok
     /\ mem = pre.mem
     /\ get_reg(registers, res.parsed.instr.dst)
          = get_reg(EntryRegisters, res.parsed.instr.src)
     /\ \A r \in Register \ {res.parsed.instr.dst} :
          get_reg(registers, r) = get_reg(EntryRegisters, r)
     /\ registers.flags = pre.registers.flags
     /\ res.parsed.instr.src = res.parsed.instr.dst => registers = EntryRegisters

C13_Witness ==
  /\ Entered("RegToReg") /\ res.ok /\ res.op = "cycle"
  /\ res.parsed.instr.src = "X" /\ res.parsed.instr.dst = "Y"
  /\ registers.y = pre.registers.x
  /\ registers.y # pre.registers.y
  /\ registers.x = pre.registers.x

\* The k-th byte the cursor of the last cycle() yields: the cursor starts at
\* the cell of the instruction pointer and goes round the end of memory.
Fetched(k) ==
  pre.mem[(WrapCheck(AsUsize(pre.registers.instruction_pointer)) + k) % MAX_MEM]

\* Bits 7-6 and bits 5-4 of the fetched move-group byte.
FetchedShape == Fetched(1) \div 64
FetchedWidthCode == (Fetched(1) % 64) \div 16

\* The register a valid register-id byte names.
RegisterOfId(id) ==
  CASE id = 0 -> "A" [] id = 1 -> "B" [] id = 2 -> "X" [] OTHER -> "Y"

\* The fetched bytes are ones the decoder has to reject: a group byte other
\* than 0 and 1, or a Move with a register-id byte of its shape outside 0..3.
MustBeRejected ==
  \/ Fetched(0) \notin {0, 1}
  \/ /\ Fetched(0) = 1
     /\ \/ FetchedShape = 0 /\ (Fetched(2) \notin 0..3 \/ Fetched(3) \notin 0..3)
        \/ FetchedShape = 1 /\ Fetched(2) \notin 0..3
        \/ FetchedShape = 2 /\ Fetched(6) \notin 0..3

\* C14: Instruction::read returns a decode error exactly when the group byte
\* is neither 0 nor 1 or a register-id byte the shape uses is outside 0..3;
\* every other byte sequence (all mem->mem moves and Halt among them) decodes
\* successfully.
C14_DecodeFailsExactlyWhenRejected ==
  res.op = "cycle"
  => IF MustBeRejected THEN res.parsed.tag = "Err" ELSE res.parsed.tag = "Ok"

\* The part of C14 that holds: a decode that returns returns an error exactly
\* for the rejected byte sequences.
C14_ReturnedDecodeIsExact ==
  (res.op = "cycle" /\ res.parsed.tag # "Panic")
  => IF MustBeRejected THEN res.parsed.tag = "Err" ELSE res.parsed.tag = "Ok"

\* The four fetched bytes from the k-th on, as a little-endian u32.
FetchedAddr(k) == U32(Fetched(k), Fetched(k + 1), Fetched(k + 2), Fetched(k + 3))

\* The variant name for a shape name and a width code.
VariantName(shape, code) ==
  shape \o (CASE code = 0 -> "8" [] code = 1 -> "16" [] OTHER -> "32")

\* C15: a Move that decodes is the variant its shape and width code name,
\* with the operands in the documented order: shape 0 RegToReg(src, dst);
\* shape 1 RegToMem(reg, addr), register byte first, then the little-endian
\* address; shape 2 MemToReg(addr, reg), address first; shape 3
\* MemToMem(src, dst); width code 0 is 8 bits, 1 is 16, 2 is 32.
C15_MoveVariantAndOperandOrder ==
  (CycleDecoded /\ Fetched(0) = 1)
  => res.parsed.instr =
       CASE FetchedShape = 0 ->
              RegToReg(RegisterOfId(Fetched(2)), RegisterOfId(Fetched(3)))
         [] FetchedShape = 1 ->
              [op  |-> VariantName("RegToMem", FetchedWidthCode),
               src |-> RegisterOfId(Fetched(2)),
               dst |-> FetchedAddr(3)]
         [] FetchedShape = 2 ->
              [op  |-> VariantName("MemToReg", FetchedWidthCode),
               src |-> FetchedAddr(2),
               dst |-> RegisterOfId(Fetched(6))]
         [] OTHER ->
              [op  |-> VariantName("MemToMem", FetchedWidthCode),
               src |-> FetchedAddr(2),
               dst |-> FetchedAddr(6)]

\* A 16-bit mem->reg move whose address bytes are all different.
C15_Witness ==
  /\ CycleDecoded
  /\ Fetched(1) = 144
  /\ res.parsed.instr.op = "MemToReg16"
  /\ res.parsed.instr.src = U32(1, 2, 3, 4)
  /\ res.parsed.instr.dst = "Y"

\* C16: snapshot() changes no register and no memory cell and reports the
\* current registers; its next_instr is Some(i) exactly when the next cycle()
\* from the same state decodes successfully, and that cycle executes i; it is
\* None exactly when the next cycle() reports a decode error.
C16_SnapshotAgreesWithCycle ==
  /\ res.op = "snapshot"
     => /\ registers = pre.registers
        /\ mem = pre.mem
        /\ res.ok => /\ Len(last_snapshot) = 1
                     /\ last_snapshot[1].registers = registers
                     /\ last_snapshot[1].mem_block = mem
  /\ (res.op = "cycle" /\ pre.res.op = "snapshot")
     => /\ Len(pre.last_snapshot) = 1
        /\ pre.last_snapshot[1].next_instr # <<>> <=> res.parsed.tag = "Ok"
        /\ pre.last_snapshot[1].next_instr = <<>> <=> res.parsed.tag = "Err"
        /\ pre.last_snapshot[1].next_instr # <<>>
           => /\ pre.last_snapshot[1].next_instr[1] = res.parsed.instr
              /\ \E e \in {do_instruction(EntryRegisters, pre.mem,
                                          pre.last_snapshot[1].next_instr[1])} :
                    /\ registers = e.registers
                    /\ mem = e.mem
                    /\ res.ok = e.ok

\* A snapshot announced a reg->reg move and the next cycle carried it out.
C16_Witness ==
  /\ res.op = "cycle" /\ pre.res.op = "snapshot" /\ res.ok
  /\ pre.last_snapshot = <<[next_instr |-> <<RegToReg("A", "B")>>,
                            registers  |-> pre.registers,
                            mem_block  |-> pre.mem]>>
  /\ registers.b = pre.registers.a
  /\ registers.b # pre.registers.b
  /\ pre.registers.instruction_pointer # AddrZero

\* ---------------------------------------------------------------------
\* The flags register as a bit set: the owner of the machine applies the
\* operators of Bitflag to Cpu::registers.flags (a pub field, cpu.rs:45).

\* Masks: no bit, ZERO, the masks of the test (bitflag.rs:66-78), a mask of
\* two bits, the top bit, every bit.
BitflagMasks == {0, ZERO, 2, 8, 10, 128, 255}

\* Machine::new (lib.rs:47-51): registers by default, memory of zeros.
InitBitflag ==
  /\ registers = [InitRegisters(AddrZero, "zero") EXCEPT !.flags = BitflagDefault]
  /\ mem = Background("zero")
  /\ pre = [registers |-> [InitRegisters(AddrZero, "zero") EXCEPT !.flags = BitflagDefault],
            mem |-> Background("zero"),
            res |-> NoResult,
            last_snapshot |-> <<>>]
  /\ res = NoResult
  /\ steps = 0
  /\ last_snapshot = <<>>

\* What a call on the flags leaves in the history variables.
BitflagCalled(op, rhs, returned) ==
  /\ res' = [op |-> op, ok |-> TRUE, rhs |-> rhs, returned |-> returned]
  /\ pre' = [registers |-> registers, mem |-> mem, res |-> res,
             last_snapshot |-> last_snapshot]
  /\ UNCHANGED <<mem, steps, last_snapshot>>

\* `flags |= rhs` (bitflag.rs:28-35)
BitOrAssign(rhs) ==
  /\ registers' = [registers EXCEPT !.flags = bitor_assign(registers.flags, rhs)]
  /\ BitflagCalled("bitor_assign", rhs, TRUE)

\* `flags &= rhs` (bitflag.rs:37-44)
BitAndAssign(rhs) ==
  /\ registers' = [registers EXCEPT !.flags = bitand_assign(registers.flags, rhs)]
  /\ BitflagCalled("bitand_assign", rhs, TRUE)

\* `flags ^= rhs` (bitflag.rs:46-53)
BitXorAssign(rhs) ==
  /\ registers' = [registers EXCEPT !.flags = bitxor_assign(registers.flags, rhs)]
  /\ BitflagCalled("bitxor_assign", rhs, TRUE)

\* `flags.contains(v)` (bitflag.rs:14-19)
Contains(v) ==
  /\ registers' = registers
  /\ BitflagCalled("contains", v, contains(registers.flags, v))

NextBitflag ==
  \/ \E rhs \in BitflagMasks : BitOrAssign(rhs)
  \/ \E rhs \in BitflagMasks : BitAndAssign(rhs)
  \/ \E rhs \in BitflagMasks : BitXorAssign(rhs)
  \/ \E v \in BitflagMasks : Contains(v)

SpecBitflag == InitBitflag /\ [][NextBitflag]_vars

\* The set of bit positions that are 1 in an 8-bit value.
BitsOf(v) == { k \in 0..7 : (v \div (2 ^ k)) % 2 = 1 }

\* C17: the flags container is a plain bit set: it starts as 0; |= m adds the
\* bits of m, &= m keeps only the bits of m, ^= m flips the bits of m, and
\* nothing else changes; contains(m) changes nothing and is true exactly when
\* the value and m share a bit (so never for m = 0, and for a mask of several
\* bits as soon as one of them is set).
C17_BitflagIsPlainBitSet ==
  /\ BitflagValue(registers.flags) \in 0..255
  /\ res.op = "new" => BitflagValue(registers.flags) = 0
  /\ res.op \in {"bitor_assign", "bitand_assign", "bitxor_assign", "contains"}
     => registers = [pre.registers EXCEPT !.flags = registers.flags]
  /\ res.op = "bitor_assign"
     => BitsOf(registers.flags) = BitsOf(pre.registers.flags) \cup BitsOf(res.rhs)
  /\ res.op = "bitand_assign"
     => BitsOf(registers.flags) = BitsOf(pre.registers.flags) \cap BitsOf(res.rhs)
  /\ res.op = "bitxor_assign"
     => BitsOf(registers.flags)
          = (BitsOf(pre.registers.flags) \ BitsOf(res.rhs))
              \cup (BitsOf(res.rhs) \ BitsOf(pre.registers.flags))
  /\ res.op = "contains"
     => /\ registers.flags = pre.registers.flags
        /\ res.returned <=> (BitsOf(registers.flags) \cap BitsOf(res.rhs) # {})
        /\ res.rhs = 0 => ~res.returned

\* contains of a two-bit mask answers true with only one of the bits set.
C17_Witness ==
  /\ res.op = "contains" /\ res.rhs = 10 /\ res.returned
  /\ registers.flags = 8
  /\ pre.res.op = "bitand_assign"

\* The id byte of a register (cpu.rs:14-21).
IdOfRegister(reg) ==
  CASE reg = "A" -> 0 [] reg = "B" -> 1 [] reg = "X" -> 2 [] reg = "Y" -> 3
    [] OTHER -> 4

\* The bytes of Halt and of a reg->reg move (spec section 6).
EncodeInstr(instr) ==
  IF instr.op = "Halt" THEN <<0>>
  ELSE EncMove(0, 0, 0, <<IdOfRegister(instr.src), IdOfRegister(instr.dst)>>)

\* Memory m holds the bytes of instr from address addr on, inside memory.
LaidOutAt(m, addr, instr) ==
  /\ AsUsize(addr) + Len(EncodeInstr(instr)) <= MAX_MEM
  /\ \A k \in 1..Len(EncodeInstr(instr)) :
       m[AsUsize(addr) + k - 1] = EncodeInstr(instr)[k]

\* C18: after a cycle that executed an instruction of n bytes fetched at an
\* address p inside memory, IP is p + n: when a second instruction is laid out at p + n, the next
\* cycle fetches there, decodes that instruction and executes it.
C18_ConsecutiveInstructionsRunInOrder ==
  (res.op = "cycle" /\ pre.res.op = "cycle" /\ pre.res.parsed.tag = "Ok" /\ pre.res.ok
     /\ InBounds(AsUsize(pre.res.at)))
  => \A second \in {Halt, RegToReg("A", "B"), RegToReg("B", "X")} :
       LaidOutAt(pre.mem,
                 WrappingAdd(pre.res.at, InstrBytes(pre.res.parsed.instr)), second)
       => /\ res.at = WrappingAdd(pre.res.at, InstrBytes(pre.res.parsed.instr))
          /\ res.parsed.tag = "Ok"
          /\ res.parsed.instr = second

\* A move-group byte reduced to what the decoder may look at: the low four
\* bits cleared, the width code 3 replaced by 2, and for shape 0 no width.
NormalGroup(b) ==
  64 * (b \div 64)
    + 16 * (IF b \div 64 = 0 THEN 0
            ELSE IF (b % 64) \div 16 = 3 THEN 2
            ELSE (b % 64) \div 16)

\* C19: the decoded Move depends only on the shape bits, the width bits and
\* the operand bytes: decoding the same memory with the move-group byte
\* replaced by its normal form (low four bits 0, width code 3 as 2, no width
\* for shape 0) gives the same instruction and the same delta.
C19_OnlyShapeAndWidthBitsMatter ==
  (res.op = "cycle" /\ Fetched(0) = 1)
  => res.parsed =
       InstructionRead(
         [pre.mem EXCEPT
            ![(WrapCheck(AsUsize(pre.registers.instruction_pointer)) + 1) % MAX_MEM]
               = NormalGroup(Fetched(1))],
         MemIteratorNew(AsUsize(pre.registers.instruction_pointer)))

\* A reg->mem move with width code 3 and all low bits set decodes as 32 bit.
C19_Witness ==
  /\ CycleDecoded
  /\ Fetched(0) = 1 /\ Fetched(1) = 127
  /\ NormalGroup(Fetched(1)) = 96
  /\ res.parsed.instr = RegToMem32("A", AddrFit)
  /\ res.parsed.delta_ip = 8

\* The registers an instruction names as operands.
RegisterOperands(instr) ==
  CASE instr.op = "RegToReg" -> {instr.src, instr.dst}
    [] instr.op \in {"RegToMem8", "RegToMem16", "RegToMem32"} -> {instr.src}
    [] instr.op \in {"MemToReg8", "MemToReg16", "MemToReg32"} -> {instr.dst}
    [] OTHER -> {}

\* C20: no instruction that cycle() decodes names IP as an operand, and along
\* every sequence of cycle() calls IP changes only by the wrapping addition of
\* the decoded delta: a move never writes it.
C20_IpIsNeverAnOperand ==
  /\ CycleDecoded => "Ip" \notin RegisterOperands(res.parsed.instr)
  /\ res.op = "cycle"
     => registers.instruction_pointer
          = IF res.parsed.tag = "Ok"
            THEN WrappingAdd(pre.registers.instruction_pointer, res.parsed.delta_ip)
            ELSE pre.registers.instruction_pointer

\* The id byte after Y's, in a destination position, is rejected.
C20_Witness ==
  /\ CycleFailed
  /\ Fetched(0) = 1 /\ FetchedShape = 2 /\ Fetched(6) = IdOfRegister("Ip")
  /\ res.parsed.err = <<"register", 4>>
  /\ registers = pre.registers

\* The registers with every bit of the flags register flipped.
FlagsFlipped(regs) == [regs EXCEPT !.flags = BitXor(@, 255, 8)]

\* C21: the flags register is inert: every cycle() and do_instruction() call,
\* whether it decodes, fails or panics, leaves the flags as they were, and
\* the call's outcome (decode result, registers, memory, return or panic) is
\* the same when it is started with different flags.
C21_FlagsAreInert ==
  /\ res.op \in {"cycle", "do_instruction"}
     => registers.flags = pre.registers.flags
  /\ res.op = "cycle"
     => \E c \in {cycle(FlagsFlipped(pre.registers), pre.mem)} :
           /\ c.parsed = res.parsed
           /\ c.ok = res.ok
           /\ c.mem = mem
           /\ c.registers = FlagsFlipped(registers)
  /\ res.op = "do_instruction"
     => \E e \in {do_instruction(FlagsFlipped(pre.registers), pre.mem,
                                 res.parsed.instr)} :
           /\ e.ok = res.ok
           /\ e.mem = mem
           /\ e.registers = FlagsFlipped(registers)

\* A move executed with flags set: the register changed, the flags did not.
C21_Witness ==
  /\ CycleDecoded /\ res.ok
  /\ res.parsed.instr = RegToReg("A", "B")
  /\ pre.registers.flags = 129
  /\ registers.flags = 129
  /\ registers.b = pre.registers.a
  /\ registers.b # pre.registers.b

\* The last call entered do_instruction with a move that reads memory.
EnteredMemoryRead ==
  \E op \in {"MemToReg8", "MemToReg16", "MemToReg32",
             "MemToMem8", "MemToMem16", "MemToMem32"} : Entered(op)

\* C22: at the address a move reads from, the reads of the three widths
\* agree: all three return or all three fault, the 8-bit read is the low
\* byte of the 16-bit read, and the 16-bit read is the low half of the
\* 32-bit read.
C22_ReadWidthsAgree ==
  EnteredMemoryRead
  => /\ read_mem8(pre.mem, res.parsed.instr.src).ok
          = read_mem16(pre.mem, res.parsed.instr.src).ok
     /\ read_mem16(pre.mem, res.parsed.instr.src).ok
          = read_mem32(pre.mem, res.parsed.instr.src).ok
     /\ (read_mem8(pre.mem, res.parsed.instr.src).ok
           /\ read_mem16(pre.mem, res.parsed.instr.src).ok)
        => read_mem8(pre.mem, res.parsed.instr.src).v
             = read_mem16(pre.mem, res.parsed.instr.src).v[1]
     /\ (read_mem16(pre.mem, res.parsed.instr.src).ok
           /\ read_mem32(pre.mem, res.parsed.instr.src).ok)
        => read_mem16(pre.mem, res.parsed.instr.src).v
             = Low16(read_mem32(pre.mem, res.parsed.instr.src).v)

\* The part of C22 that holds: where all three reads return and the address
\* is inside memory, their values agree.
C22_ReturnedReadsAgree ==
  (EnteredMemoryRead
     /\ read_mem8(pre.mem, res.parsed.instr.src).ok
     /\ read_mem32(pre.mem, res.parsed.instr.src).ok)
  => /\ read_mem16(pre.mem, res.parsed.instr.src).ok
     /\ read_mem8(pre.mem, res.parsed.instr.src).v
          = read_mem16(pre.mem, res.parsed.instr.src).v[1]
     /\ read_mem16(pre.mem, res.parsed.instr.src).v
          = Low16(read_mem32(pre.mem, res.parsed.instr.src).v)

\* C23: code and data share one memory and nothing is cached: every cycle()
\* decodes the bytes memory holds when it starts (the writes of the cycle
\* before included), and a decoded instruction is executed as decoded from
\* those bytes, with IP advanced by their delta, also when the instruction
\* overwrites its own bytes.
C23_DecodedBeforeEffectAndNoCache ==
  res.op = "cycle"
  => /\ res.parsed
          = InstructionRead(pre.mem,
                            MemIteratorNew(AsUsize(pre.registers.instruction_pointer)))
     /\ res.parsed.tag = "Ok"
        => /\ registers.instruction_pointer
                = WrappingAdd(pre.registers.instruction_pointer, res.parsed.delta_ip)
           /\ \E e \in {do_instruction(EntryRegisters, pre.mem, res.parsed.instr)} :
                 /\ mem = e.mem
                 /\ registers = e.registers
                 /\ res.ok = e.ok

\* A 32-bit store fetched at 0 overwrote its own address bytes and the byte
\* at the new IP, and the next cycle decoded the byte it had stored there.
C23_Witness ==
  /\ res.op = "cycle" /\ pre.res.op = "cycle"
  /\ pre.res.at = AddrZero
  /\ pre.res.parsed.tag = "Ok"
  /\ pre.res.parsed.instr = RegToMem32("A", ToU32(5))
  /\ pre.res.parsed.delta_ip = 8
  /\ pre.mem[5] = 161 /\ pre.mem[6] = 162
  /\ pre.mem[8] = 164
  /\ res.at = ToU32(8)
  /\ res.parsed.tag = "Err"
  /\ res.parsed.err = <<"group", 164>>

====
